---- MODULE Spec2Model ----
(***************************************************************************)
(* Model of the hierarchical ("onion") spillage optimisation driver of     *)
(* SIAB/spillage/api.py: the coefficient algebra (_coef_subset, merge,     *)
(* _peel), the initial-guess sizing (_make_guess, _coef_guess), the        *)
(* zeta-count inference (_nzeta_infer, _nzeta_mean_conf, _wll_fold and the *)
(* rounding of _coef_opt_jy), the band-to-channel assignment               *)
(* (_nzeta_analysis), the configuration discovery (_orb_matrices) and      *)
(* accumulation (_coef_opt_jy, _coef_opt_pw), the loop over the cutoff     *)
(* radii with the saving of the levels (run, _save_orb) and the            *)
(* level-by-level loop (_do_onion_opt).                                    *)
(*                                                                         *)
(* Conventions.  A Python list is a sequence; a Python index i is the      *)
(* sequence index i + 1, so channel l (s = 0, p = 1, ...) of an nzeta      *)
(* vector v is v[l + 1].  A coefficient row (the list over q of one zeta   *)
(* function) is an opaque token: the model never looks inside a row, as    *)
(* the code never does.  A tensor [l][zeta] is a sequence of sequences of  *)
(* rows, and [it][l][zeta] wraps it in a one-element sequence.  Python's   *)
(* None is the record None, a raised exception is Raise(kind).             *)
(***************************************************************************)
EXTENDS Integers, Sequences, FiniteSets, TLC

VARIABLES
    nzeta,   \* _do_onion_opt: nzeta[i] is the nzeta vector of shell i
    deps,    \* _do_onion_opt: deps[i] is the parent shell of i, 0 for None
    guess,   \* _do_onion_opt: the recipe built by _make_guess
    mono,    \* the band-to-channel assignment of the monomer (_nzeta_analysis)
    iorb,    \* _do_onion_opt: the loop index (next shell to optimise)
    coefs,   \* _do_onion_opt: coefs[i], None until shell i is optimised
    calls,   \* history: the arguments of every minimizer.opt call, in order
    pc,      \* position of the running function
    args,    \* arguments of the pure function under check
    ret      \* its result

vars == <<nzeta, deps, guess, mono, iorb, coefs, calls, pc, args, ret>>

onionVars == <<nzeta, deps, guess, mono, iorb, coefs, calls>>

-----------------------------------------------------------------------------
(* Bounds of the model. *)

\* largest number of zeta functions of one channel
MaxZeta == 2

\* largest number of angular-momentum channels of one nzeta vector
MaxChannels == 2

\* largest number of shells (levels) of one run
MaxShells == 2

\* largest number of k-points of one configuration
MaxKpts == 2

\* largest number of bands computed for one configuration
MaxBands == 2

\* largest number of configuration folders one inference combines
MaxFolders == 2

\* largest number of entries of one directory
MaxFiles == 4

\* largest number of overlap-file pairs of one folder that match a cutoff
MaxPairs == 2

\* largest number of cutoff radii of one run
MaxRcuts == 2

-----------------------------------------------------------------------------
(* Python values. *)

None == [some |-> FALSE, v |-> <<>>]

Some(x) == [some |-> TRUE, v |-> x]

Ok(x) == [ok |-> TRUE, err |-> "", v |-> x]

Raise(kind) == [ok |-> FALSE, err |-> kind, v |-> <<>>]

Pending == [ok |-> FALSE, err |-> "pending", v |-> <<>>]

Max2(a, b) == IF a >= b THEN a ELSE b

Min2(a, b) == IF a <= b THEN a ELSE b

MaxOf(S) == CHOOSE x \in S : \A y \in S : y <= x

\* range(a, b) as a sequence of Python indices
Range(a, b) == [k \in 1..(b - a) |-> a + k - 1]

\* all nzeta vectors within the bounds
NzetaVectors == UNION {[1..n -> 0..MaxZeta] : n \in 1..MaxChannels}

\* the nzeta vectors a shell of the model may have
ShellNzetas ==
    {<<1>>, <<2>>, <<1, 0>>, <<1, 1>>, <<2, 1>>, <<1, 2>>, <<2, 2>>}

\* lists of 1..n nzeta vectors
NzetaLists(n) == UNION {[1..k -> NzetaVectors] : k \in 1..n}

\* v0 <= v componentwise, a channel absent from v0 counting as 0
Leq(v0, v) ==
    /\ Len(v0) <= Len(v)
    /\ \A l \in 1..Len(v0) : v0[l] <= v[l]

\* the coefficient set whose channel l holds the n rows <<l, 0>> .. <<l, n-1>>
Data(nl, n) == [l \in 1..nl |-> [j \in 1..n |-> <<l - 1, j - 1>>]]

-----------------------------------------------------------------------------
(* Coefficient algebra. *)

\* a faulty variant of _coef_subset: the baseline is not skipped (range starts at 0)
CoefSubsetFromZero(nzeta_, nzeta0, data) ==
    IF \E l \in 1..Len(nzeta_) : l > Len(data) \/ nzeta_[l] > Len(data[l])
    THEN Raise("IndexError")
    ELSE Ok(<< [l \in 1..Len(nzeta_) |->
                 [iz \in 1..nzeta_[l] |-> data[l][iz]]] >>)

\* a faulty variant of _coef_subset: the hierarchy assertion of line 440 is dropped
CoefSubsetNoAssert(nzeta_, nzeta0, data) ==
    LET n0 == IF nzeta0.some THEN nzeta0.v ELSE <<>>
        padded == [l \in 1..Len(nzeta_) |-> IF l <= Len(n0) THEN n0[l] ELSE 0]
        iz_subset == [l \in 1..Len(nzeta_) |-> Range(padded[l], nzeta_[l])]
    IN  IF \E l \in 1..Len(nzeta_) : \E k \in 1..Len(iz_subset[l]) :
               l > Len(data) \/ iz_subset[l][k] + 1 > Len(data[l])
        THEN Raise("IndexError")
        ELSE Ok(<< [l \in 1..Len(nzeta_) |->
                     [k \in 1..Len(iz_subset[l]) |->
                         data[l][iz_subset[l][k] + 1]]] >>)

\* a faulty variant of _coef_subset: the missing channels of nzeta0 are padded with
\* the target count instead of 0
CoefSubsetPadTarget(nzeta_, nzeta0, data) ==
    LET n0 == IF nzeta0.some THEN nzeta0.v ELSE <<>>
        padded == [l \in 1..Len(nzeta_) |->
                      IF l <= Len(n0) THEN n0[l] ELSE nzeta_[l]]
        iz_subset == [l \in 1..Len(nzeta_) |-> Range(padded[l], nzeta_[l])]
    IN  IF Len(nzeta_) < Len(n0) \/ \E l \in 1..Len(nzeta_) : nzeta_[l] < padded[l]
        THEN Raise("AssertionError")
        ELSE IF \E l \in 1..Len(nzeta_) : \E k \in 1..Len(iz_subset[l]) :
               l > Len(data) \/ iz_subset[l][k] + 1 > Len(data[l])
        THEN Raise("IndexError")
        ELSE Ok(<< [l \in 1..Len(nzeta_) |->
                     [k \in 1..Len(iz_subset[l]) |->
                         data[l][iz_subset[l][k] + 1]]] >>)

\* _coef_subset(nzeta, nzeta0, data): the rows of data that nzeta has and
\* nzeta0 has not, as [t][l][z]; nzeta0 is None or Some(vector)
_coef_subset(nzeta_, nzeta0, data) ==
    IF ~nzeta0.some
    THEN \* line 436: data[l][iz] for iz in range(nz)
         IF \E l \in 1..Len(nzeta_) :
                nzeta_[l] > 0 /\ (l > Len(data) \/ nzeta_[l] > Len(data[l]))
         THEN Raise("IndexError")
         ELSE Ok(<< [l \in 1..Len(nzeta_) |->
                      [iz \in 1..nzeta_[l] |-> data[l][iz]]] >>)
    ELSE IF ~(Len(nzeta_) >= Len(nzeta0.v))
    THEN Raise("AssertionError")                               \* line 437
    ELSE LET padded == nzeta0.v \o
                 [k \in 1..(Len(nzeta_) - Len(nzeta0.v)) |-> 0] \* line 438
             iz_subset == [l \in 1..Len(nzeta_) |->
                              Range(padded[l], nzeta_[l])]      \* line 441
         IN  IF \E l \in 1..Len(nzeta_) : ~(nzeta_[l] >= padded[l])
             THEN Raise("AssertionError")                       \* line 440
             ELSE IF \E l \in 1..Len(nzeta_) : \E k \in 1..Len(iz_subset[l]) :
                        l > Len(data) \/ iz_subset[l][k] + 1 > Len(data[l])
             THEN Raise("IndexError")
             ELSE Ok(<< [l \in 1..Len(nzeta_) |->
                          [k \in 1..Len(iz_subset[l]) |->
                              data[l][iz_subset[l][k] + 1]]] >>) \* line 444

\* listmanip.merge(l1, l2, depth): the two nested lists concatenated at the
\* given depth; above it they are zipped, the tail of the longer one kept
RECURSIVE merge(_, _, _)
merge(l1, l2, depth) ==
    IF depth = 0
    THEN l1 \o l2
    ELSE [i \in 1..Max2(Len(l1), Len(l2)) |->
             IF i > Len(l1) THEN l2[i]
             ELSE IF i > Len(l2) THEN l1[i]
             ELSE merge(l1[i], l2[i], depth - 1)]

-----------------------------------------------------------------------------
(* _coef_subset on its own: nzeta, nzeta0 and the size of data are free. *)

InitIdleOnion ==
    /\ nzeta = <<>>
    /\ deps = <<>>
    /\ guess = None
    /\ mono = <<>>
    /\ iorb = 0
    /\ coefs = <<>>
    /\ calls = <<>>

InitSubset ==
    /\ InitIdleOnion
    /\ pc = "subset"
    /\ args \in [nzeta : NzetaVectors,
                 nzeta0 : {None} \cup {Some(v) : v \in NzetaVectors},
                 nrows : {MaxZeta - 1, MaxZeta}]
    /\ ret = Pending

CallCoefSubset ==
    /\ pc = "subset"
    /\ ret' = _coef_subset(args.nzeta, args.nzeta0,
                           Data(MaxChannels, args.nrows))
    /\ pc' = "done"
    /\ UNCHANGED <<onionVars, args>>

NextSubset == CallCoefSubset

SpecSubset == InitSubset /\ [][NextSubset]_vars

\* the baseline of channel l (a sequence index): 0 for None or an absent channel
Baseline(nzeta0, l) ==
    IF nzeta0.some /\ l <= Len(nzeta0.v) THEN nzeta0.v[l] ELSE 0

\* the call is within the contract of _coef_subset: a hierarchy, inside data
SubsetInContract ==
    /\ args.nzeta0.some => Leq(args.nzeta0.v, args.nzeta)
    /\ \A l \in 1..Len(args.nzeta) : args.nzeta[l] <= args.nrows

\* C5: _coef_subset(nzeta, nzeta0, data) returns, for every channel l of
\* nzeta, exactly the rows data[l][j] for j in [nzeta0[l], nzeta[l]) in
\* increasing j, the baseline being 0 for a nzeta0 of None and for a channel
\* that a shorter nzeta0 lacks; equal counts give an empty channel.
C5_SubsetIsHalfOpenRange ==
    (pc = "done" /\ SubsetInContract) =>
        /\ ret.ok
        /\ Len(ret.v) = 1
        /\ Len(ret.v[1]) = Len(args.nzeta)
        /\ \A l \in 1..Len(args.nzeta) :
             LET b == Baseline(args.nzeta0, l)
             IN  /\ Len(ret.v[1][l]) = args.nzeta[l] - b
                 /\ \A k \in 1..(args.nzeta[l] - b) :
                      ret.v[1][l][k] = <<l - 1, b + k - 1>>

\* C5 witness: a shorter nzeta0 with a positive baseline, one channel that is
\* cut to a proper non-empty range, one that nzeta0 lacks, returned.
C5_Witness ==
    /\ pc = "done"
    /\ SubsetInContract
    /\ args.nzeta0.some
    /\ Len(args.nzeta0.v) < Len(args.nzeta)
    /\ args.nzeta0.v[1] > 0
    /\ args.nzeta0.v[1] < args.nzeta[1]
    /\ args.nzeta[2] > 0
    /\ ret.ok

\* some channel that both vectors have has a larger baseline than target
HierarchyViolated(nzeta0, nzeta_) ==
    \E l \in 1..Min2(Len(nzeta0), Len(nzeta_)) : nzeta0[l] > nzeta_[l]

\* C6: _coef_subset fails whenever nzeta0[l] > nzeta[l] for some channel l,
\* and returns no partial result then.
C6_SubsetFailsOnViolation ==
    (pc = "done" /\ args.nzeta0.some
        /\ HierarchyViolated(args.nzeta0.v, args.nzeta)) =>
        /\ ~ret.ok
        /\ ret.err = "AssertionError"
        /\ ret.v = <<>>

\* C6 witness: the first channel is a valid range, the second one violates
\* the hierarchy, and the call has failed.
C6_Witness ==
    /\ pc = "done"
    /\ args.nzeta0.some
    /\ Len(args.nzeta0.v) = 2 /\ Len(args.nzeta) = 2
    /\ args.nzeta0.v[1] < args.nzeta[1]
    /\ args.nzeta[1] <= args.nrows
    /\ args.nzeta0.v[2] > args.nzeta[2]
    /\ ~ret.ok


-----------------------------------------------------------------------------
(* Subsets of consecutive levels merged along the zeta axis, as             *)
(* _do_onion_opt merges the frozen block with the new one (line 308).       *)

InitCompose ==
    /\ InitIdleOnion
    /\ pc = "parts"
    /\ args \in {a \in [nzeta0 : NzetaVectors, nzeta1 : NzetaVectors,
                        nzeta2 : NzetaVectors] :
                    Leq(a.nzeta0, a.nzeta1) /\ Leq(a.nzeta1, a.nzeta2)}
    /\ ret = Pending

\* the two consecutive subsets and the subset across both levels
SubsetParts ==
    /\ pc = "parts"
    /\ ret' = [inner |-> _coef_subset(args.nzeta1, Some(args.nzeta0),
                                      Data(MaxChannels, MaxZeta)),
               outer |-> _coef_subset(args.nzeta2, Some(args.nzeta1),
                                      Data(MaxChannels, MaxZeta)),
               whole |-> _coef_subset(args.nzeta2, Some(args.nzeta0),
                                      Data(MaxChannels, MaxZeta)),
               merged |-> Pending]
    /\ pc' = "merge"
    /\ UNCHANGED <<onionVars, args>>

\* merge(inner, outer, 2): concatenation along the zeta axis of [t][l][z]
MergeParts ==
    /\ pc = "merge"
    /\ ret.inner.ok /\ ret.outer.ok
    /\ ret' = [ret EXCEPT !.merged = Ok(merge(ret.inner.v, ret.outer.v, 2))]
    /\ pc' = "done"
    /\ UNCHANGED <<onionVars, args>>

NextCompose == SubsetParts \/ MergeParts

SpecCompose == InitCompose /\ [][NextCompose]_vars

\* C7: for every nzeta0 <= nzeta1 <= nzeta2 (componentwise, shorter vectors
\* allowed for the inner levels) within the size of A, merging
\* _coef_subset(nzeta1, nzeta0, A) with _coef_subset(nzeta2, nzeta1, A) along
\* the zeta axis equals _coef_subset(nzeta2, nzeta0, A).
C7_SubsetMergeCompose ==
    /\ pc = "merge" => (ret.inner.ok /\ ret.outer.ok /\ ret.whole.ok)
    /\ pc = "done" => ret.merged = ret.whole

\* C7 witness: nzeta0 and nzeta1 are shorter than nzeta2, both parts hold
\* rows of the first channel, and the merge has been made.
C7_Witness ==
    /\ pc = "done"
    /\ Len(args.nzeta0) < Len(args.nzeta2)
    /\ Len(args.nzeta1) < Len(args.nzeta2)
    /\ args.nzeta0[1] < args.nzeta1[1]
    /\ args.nzeta1[1] < args.nzeta2[1]
    /\ args.nzeta2[2] > 0
    /\ ret.merged.ok

-----------------------------------------------------------------------------
(* The initial-guess recipe. *)

\* a faulty variant of _make_guess: min instead of max in line 255
MakeGuessMin(nzeta_, folder, jy, diagnosis) ==
    LET lmax == MaxOf({Len(nzeta_[i]) : i \in 1..Len(nzeta_)}) - 1
        padded == [i \in 1..Len(nzeta_) |->
                      nzeta_[i] \o [k \in 1..(lmax + 1 - Len(nzeta_[i])) |-> -1]]
        nzeta_max == [l \in 1..(lmax + 1) |->
                         -MaxOf({-padded[i][l] : i \in 1..Len(nzeta_)})]
    IN  [nzeta |-> nzeta_max, diagnosis |-> diagnosis,
         key |-> IF jy THEN "outdir" ELSE "orb_mat", folder |-> folder]

\* _make_guess(nzeta, folder, jy, diagnosis): the recipe of the initial
\* guess, holding per channel the largest zeta count of all shells; the
\* third key is "outdir" for jy and "orb_mat" for pw
_make_guess(nzeta_, folder, jy, diagnosis) ==
    LET lmax == MaxOf({Len(nzeta_[i]) : i \in 1..Len(nzeta_)}) - 1  \* line 251
        padded == [i \in 1..Len(nzeta_) |->
                      nzeta_[i] \o
                      [k \in 1..(lmax + 1 - Len(nzeta_[i])) |-> -1]] \* line 254
        nzeta_max == [l \in 1..(lmax + 1) |->
                         MaxOf({padded[i][l] : i \in 1..Len(nzeta_)})] \* 255
    IN  [nzeta |-> nzeta_max, diagnosis |-> diagnosis,
         key |-> IF jy THEN "outdir" ELSE "orb_mat", folder |-> folder]

InitGuess ==
    /\ InitIdleOnion
    /\ pc = "make_guess"
    /\ args \in [nzeta : NzetaLists(MaxShells), jy : BOOLEAN]
    /\ ret = Pending

CallMakeGuess ==
    /\ pc = "make_guess"
    /\ ret' = Ok(_make_guess(args.nzeta, "initdir", args.jy, TRUE))
    /\ pc' = "done"
    /\ UNCHANGED <<onionVars, args>>

NextGuess == CallMakeGuess

SpecGuess == InitGuess /\ [][NextGuess]_vars

\* the shells of the list that have channel l
ShellsWith(nzeta_, l) == {i \in 1..Len(nzeta_) : l <= Len(nzeta_[i])}

\* C10: the nzeta of the guess has as many channels as the longest shell
\* nzeta, its entry for channel l is the maximum of nzeta[l] over the shells
\* that have channel l, so it is >= s[l] for every shell s and channel l of s.
C10_GuessIsChannelwiseMax ==
    pc = "done" =>
        LET g == ret.v.nzeta
        IN  /\ \A i \in 1..Len(args.nzeta) : Len(g) >= Len(args.nzeta[i])
            /\ \E i \in 1..Len(args.nzeta) : Len(g) = Len(args.nzeta[i])
            /\ \A l \in 1..Len(g) :
                 /\ \E i \in ShellsWith(args.nzeta, l) : g[l] = args.nzeta[i][l]
                 /\ \A i \in ShellsWith(args.nzeta, l) : g[l] >= args.nzeta[i][l]

\* C10 witness: two shells of different lengths, the shorter one holding the
\* larger count of the first channel, and the guess has been made.
C10_Witness ==
    /\ pc = "done"
    /\ Len(args.nzeta) = 2
    /\ Len(args.nzeta[1]) < Len(args.nzeta[2])
    /\ args.nzeta[1][1] > args.nzeta[2][1]
    /\ args.nzeta[2][2] > 0

-----------------------------------------------------------------------------
(* _peel: a merged tensor [l][zeta] split back into its levels. *)

Reverse(sq) == [i \in 1..Len(sq) |-> sq[Len(sq) + 1 - i]]

\* a faulty variant of PeelIter: pop() instead of pop(0), the rows leave from the end
PeelIterPopLast(coef_lvl, nzeta_lvl) ==
    LET last == coef_lvl[Len(coef_lvl)]
    IN  IF \E l \in 1..Len(nzeta_lvl) :
               nzeta_lvl[l] > 0
               /\ (l > Len(last) \/ nzeta_lvl[l] > Len(last[l]))
        THEN Raise("IndexError")
        ELSE LET popped == [l \in 1..Len(nzeta_lvl) |->
                     IF nzeta_lvl[l] = 0 THEN <<>>
                     ELSE Reverse(SubSeq(last[l],
                              Len(last[l]) - nzeta_lvl[l] + 1, Len(last[l])))]
                 rest == [l \in 1..Len(last) |->
                     IF l <= Len(nzeta_lvl)
                     THEN SubSeq(last[l], 1, Len(last[l]) - nzeta_lvl[l])
                     ELSE last[l]]
             IN  Ok([coef_lvl EXCEPT ![Len(coef_lvl)] = rest] \o <<popped>>)

\* one iteration of the loop of _peel (line 365): per channel l of nzeta_lvl
\* the first nzeta_lvl[l] rows are popped off the last tensor of coef_lvl,
\* which keeps the rest, and the popped rows are appended as a new tensor
PeelIter(coef_lvl, nzeta_lvl) ==
    LET last == coef_lvl[Len(coef_lvl)]
    IN  IF \E l \in 1..Len(nzeta_lvl) :
               nzeta_lvl[l] > 0
               /\ (l > Len(last) \/ nzeta_lvl[l] > Len(last[l]))
        THEN Raise("IndexError")          \* pop from a missing or empty list
        ELSE LET popped == [l \in 1..Len(nzeta_lvl) |->
                     IF nzeta_lvl[l] = 0 THEN <<>>
                     ELSE SubSeq(last[l], 1, nzeta_lvl[l])]
                 rest == [l \in 1..Len(last) |->
                     IF l <= Len(nzeta_lvl)
                     THEN SubSeq(last[l], nzeta_lvl[l] + 1, Len(last[l]))
                     ELSE last[l]]
             IN  Ok([coef_lvl EXCEPT ![Len(coef_lvl)] = rest] \o <<popped>>)

\* the loop of _peel over reversed(nzeta_lvl_tot), k levels still to do
RECURSIVE PeelLoop(_, _, _)
PeelLoop(coef_lvl, nzeta_lvl_tot, k) ==
    IF k = 0
    THEN Ok(coef_lvl)
    ELSE LET r == PeelIter(coef_lvl, nzeta_lvl_tot[k])
         IN  IF r.ok THEN PeelLoop(r.v, nzeta_lvl_tot, k - 1) ELSE r

\* a faulty variant of _peel: the final [::-1] is missing
PeelNoReverse(coef, nzeta_lvl_tot) ==
    LET r == PeelLoop(<<coef>>, nzeta_lvl_tot, Len(nzeta_lvl_tot))
    IN  IF r.ok THEN Ok(Tail(r.v)) ELSE r

\* _peel(coef, nzeta_lvl_tot): coef_lvl[1:][::-1] after the loop
_peel(coef, nzeta_lvl_tot) ==
    LET r == PeelLoop(<<coef>>, nzeta_lvl_tot, Len(nzeta_lvl_tot))  \* 363-365
    IN  IF r.ok THEN Ok(Reverse(Tail(r.v))) ELSE r                  \* line 366

\* non-decreasing lists of nzeta vectors, innermost level first
NzetaChains(n) ==
    {c \in NzetaLists(n) : \A i \in 1..(Len(c) - 1) : Leq(c[i], c[i + 1])}

\* the zeta count of channel l at the level before i (0 if there is none)
Before(c, i, l) == IF i > 1 /\ l <= Len(c[i - 1]) THEN c[i - 1][l] ELSE 0

\* the tensor of level i, generated on its own: its rows are the tokens
\* <<i, l, k>>.  With sizes "per_level" it has c[i][l] rows in channel l, with
\* sizes "cumulative" the c[i][l] - c[i-1][l] rows that level i adds
Level(c, sizes, i) ==
    [l \in 1..Len(c[i]) |->
        [k \in 1..(IF sizes = "per_level" THEN c[i][l]
                   ELSE c[i][l] - Before(c, i, l)) |-> <<i, l - 1, k - 1>>]]

Levels(c, sizes) == [i \in 1..Len(c) |-> Level(c, sizes, i)]

\* the levels merged in order along the zeta axis, innermost first
RECURSIVE MergeAll(_, _)
MergeAll(lv, n) ==
    IF n = 1 THEN lv[1] ELSE merge(MergeAll(lv, n - 1), lv[n], 1)

InitPeel ==
    /\ InitIdleOnion
    /\ pc = "levels"
    /\ args \in [nzeta_lvl_tot : NzetaChains(MaxShells),
                 sizes : {"per_level", "cumulative"}]
    /\ ret = Pending

MergeLevels ==
    /\ pc = "levels"
    /\ ret' = [coef |-> MergeAll(Levels(args.nzeta_lvl_tot, args.sizes),
                                 Len(args.nzeta_lvl_tot)),
               peeled |-> Pending]
    /\ pc' = "peel"
    /\ UNCHANGED <<onionVars, args>>

CallPeel ==
    /\ pc = "peel"
    /\ ret' = [ret EXCEPT !.peeled = _peel(ret.coef, args.nzeta_lvl_tot)]
    /\ pc' = "done"
    /\ UNCHANGED <<onionVars, args>>

NextPeel == MergeLevels \/ CallPeel

SpecPeel == InitPeel /\ [][NextPeel]_vars

\* every level has more zeta functions than the one before in every channel
\* they share, and at least as many channels
StrictlyIncreasing(c) ==
    \A i \in 1..(Len(c) - 1) :
        /\ Len(c[i]) <= Len(c[i + 1])
        /\ \A l \in 1..Len(c[i]) : c[i][l] < c[i + 1][l]

LastRows(rows, n) == SubSeq(rows, Len(rows) - n + 1, Len(rows))

ButLastRows(rows, n) == SubSeq(rows, 1, Len(rows) - n)

\* what is left of coef once the levels above i have taken, each in turn,
\* the last rows of every channel
RECURSIVE Remains(_, _, _)
Remains(coef, c, i) ==
    IF i = Len(c) THEN coef
    ELSE LET r == Remains(coef, c, i + 1)
         IN  [l \in 1..Len(r) |->
                 IF l <= Len(c[i + 1])
                 THEN ButLastRows(r[l], Min2(c[i + 1][l], Len(r[l])))
                 ELSE r[l]]

\* level i as the last c[i][l] rows per channel of what remains
LastOfRemains(coef, c, i) ==
    LET r == Remains(coef, c, i)
    IN  [l \in 1..Len(c[i]) |-> LastRows(r[l], Min2(c[i][l], Len(r[l])))]

-----------------------------------------------------------------------------
(* The monomer run that the jy initial guess picks its bands from. *)

\* count_thr of _nzeta_analysis (0.1), in tenths: weights are tenths here
CountThr == 1

\* the channel of band b (a Python index) of an atom whose bands come in
\* groups of one (2l+1)-fold multiplet per channel, s first
BandChannel(b) ==
    LET r == b % (MaxChannels * MaxChannels)
    IN  CHOOSE l \in 0..(MaxChannels - 1) : l * l <= r /\ r < (l + 1) * (l + 1)

\* wlb of a monomer with nz multiplets per channel: wlb[b + 1][l + 1] is the
\* weight (in tenths) of band b in channel l, every band pure in one channel
PureBands(nz) ==
    [b1 \in 1..(nz * MaxChannels * MaxChannels) |->
        [l1 \in 1..MaxChannels |->
            IF BandChannel(b1 - 1) = l1 - 1 THEN 10 ELSE 0]]

\* PureBands(MaxZeta) with band 1 hybridised: half of its weight in the s
\* channel and half in the p channel, so both weights pass count_thr
MixedBands ==
    [PureBands(MaxZeta) EXCEPT ![2] =
        [l1 \in 1..MaxChannels |-> IF l1 <= 2 THEN 5 ELSE 0]]

\* the monomer runs of the model: enough bands for MaxZeta functions per
\* channel, or for one function per channel only, or with a hybridised band
MonomerRuns == {PureBands(MaxZeta), PureBands(1), MixedBands}

\* the bands of one (spin, k) step assigned to channel l (lines 819-823)
BandsOf(wlb, l) ==
    LET RECURSIVE Pick(_)
        Pick(b1) ==
            IF b1 > Len(wlb) THEN <<>>
            ELSE (IF wlb[b1][l] >= CountThr THEN <<b1 - 1>> ELSE <<>>)
                 \o Pick(b1 + 1)
    IN  Pick(1)

\* flatten of a list of lists
RECURSIVE flatten(_)
flatten(ll) == IF ll = <<>> THEN <<>> ELSE Head(ll) \o flatten(Tail(ll))

\* a monomer run as _nzeta_analysis reads it, INPUT and log agreeing on
\* nspin: nspin, the number nk of k-points of the log, and wll[isk + 1] the
\* band weights of the (spin, k) step isk
MonomerRun(nspin_, nk_, wll_) == [nspin |-> nspin_, nk |-> nk_, wll |-> wll_]

\* the run of one spin and one k-point whose band weights are wlb
GammaRun(wlb) == MonomerRun(1, 1, <<wlb>>)

\* the steps whose bands are appended to out[sp - 1] (line 823)
StepsInto(run, sp) ==
    SelectSeq([i \in 1..(run.nspin * run.nk) |-> i - 1],
              LAMBDA isk : isk % run.nk = sp - 1)

\* _nzeta_analysis(folder): out[ispin][l] lists the bands assigned to l;
\* out has nspin rows and the row written at step isk is isk % len(wk)
_nzeta_analysis(run) ==
    LET nl == Len(run.wll[1][1])                               \* line 803
        steps == 0..(run.nspin * run.nk - 1)                   \* line 809
    IN  IF \E isk \in steps :
              /\ isk % run.nk >= run.nspin
              /\ \E l \in 1..nl : BandsOf(run.wll[isk + 1], l) # <<>>
        THEN Raise("IndexError")                               \* line 823
        ELSE Ok([sp \in 1..run.nspin |->
                    [l \in 1..nl |->
                        LET into == StepsInto(run, sp)
                        IN  flatten([j \in 1..Len(into) |->
                                BandsOf(run.wll[into[j] + 1], l)])]])

\* lst[a:b] for 0 <= a, b
Slice(lst, a, b) == SubSeq(lst, a + 1, Min2(b, Len(lst)))

\* initgen_jy(outdir, nzeta, ibands, diagnosis): the initial rows [l][z] made
\* from the picked bands, nzeta[l] of them in channel l.  What it does with a
\* negative count is not known here: onNegative is "raise" or "empty"
initgen_jy(nzeta_, ibands, onNegative) ==
    IF (\E l \in 1..Len(nzeta_) : nzeta_[l] < 0) /\ onNegative = "raise"
    THEN Raise("initgen_jy")
    ELSE Ok([l \in 1..Len(nzeta_) |->
                [k \in 1..nzeta_[l] |-> <<"init", l - 1, k - 1>>]])

\* initgen_pw(orb_mat, nzeta, diagnosis): the seed rows [l][z], nzeta[l] of
\* them in channel l
initgen_pw(nzeta_) ==
    [l \in 1..Len(nzeta_) |-> [k \in 1..nzeta_[l] |-> <<"init", l - 1, k - 1>>]]

\* zip(a, b) has the length of the shorter list
ZipLen(a, b) == Min2(Len(a), Len(b))

\* the excluded vector _coef_guess works with (line 389)
ExcludedOf(nzeta_, excluded) ==
    IF ~excluded.some THEN [l \in 1..Len(nzeta_) |-> 0] ELSE excluded.v

\* lines 392-394: per spin, the bands of the newly added zeta range of every
\* channel of zip(nzeta, excluded), flattened
PickedBands(nzeta_, excl, ib) ==
    [sp \in 1..Len(ib) |->
        flatten([l \in 1..ZipLen(nzeta_, excl) |->
            Slice(ib[sp][l], (2 * (l - 1) + 1) * excl[l],
                  (2 * (l - 1) + 1) * nzeta_[l])])]

\* line 403: the numbers of new zeta functions asked of the generator, one
\* per channel of zip(nzeta, excluded)
NewZetas(nzeta_, excl) ==
    [l \in 1..ZipLen(nzeta_, excl) |-> nzeta_[l] - excl[l]]

\* _coef_guess(guess, nzeta, excluded): the initial rows of the new zeta
\* functions of one shell, as [t][l][z]; excluded is None or Some(vector)
_coef_guess(guess_, nzeta_, excluded, ib, onNegative) ==
    IF guess_.key # "orb_mat"                                  \* line 386
    THEN LET excl == ExcludedOf(nzeta_, excluded)              \* line 389
             n == ZipLen(nzeta_, excl)
         IN  IF ~(Len(ib) > 0)
             THEN Raise("AssertionError")                      \* line 391
             ELSE IF \E sp \in 1..Len(ib) : n > Len(ib[sp])
             THEN Raise("IndexError")                          \* ibsp[l]
             ELSE LET picked == PickedBands(nzeta_, excl, ib)  \* 392-394
                      _nzeta == NewZetas(nzeta_, excl)         \* line 403
                  IN  IF ~(Len(picked[1]) > 0)
                      THEN Raise("AssertionError")             \* line 401
                      ELSE LET coef_init ==
                                   initgen_jy(_nzeta, picked[1], onNegative)
                           IN  IF coef_init.ok
                               THEN Ok(<<coef_init.v>>)        \* line 410
                               ELSE coef_init
    ELSE _coef_subset(nzeta_, excluded, initgen_pw(guess_.nzeta)) \* 407, 410

\* the ibands argument of the initgen call of line 404, None when
\* _coef_guess fails before that line
IbandsPassed(nzeta_, excluded, ib) ==
    LET excl == ExcludedOf(nzeta_, excluded)
    IN  IF \/ ~(Len(ib) > 0)
           \/ \E sp \in 1..Len(ib) : ZipLen(nzeta_, excl) > Len(ib[sp])
           \/ ~(Len(PickedBands(nzeta_, excl, ib)[1]) > 0)
        THEN None
        ELSE Some(PickedBands(nzeta_, excl, ib)[1])

\* the nzeta argument of the initgen call of line 404, None when
\* _coef_guess fails before that line
NzetaPassed(nzeta_, excluded, ib) ==
    IF ~IbandsPassed(nzeta_, excluded, ib).some THEN None
    ELSE Some(NewZetas(nzeta_, ExcludedOf(nzeta_, excluded)))

\* the jy case of _coef_guess alone: a shell, its parent's nzeta (or None)
\* and a monomer run
InitCoefGuess ==
    /\ InitIdleOnion
    /\ pc = "start"
    /\ args \in [nzeta : NzetaVectors,
                 excluded : {None} \cup {Some(v) : v \in NzetaVectors},
                 mono : MonomerRuns,
                 onNegative : {"raise", "empty"}]
    /\ ret = Pending

CallCoefGuess ==
    /\ pc = "start"
    /\ pc' = "done"
    /\ LET guess_ == _make_guess(<<args.nzeta>>, "initdir", TRUE, TRUE)
           ib == _nzeta_analysis(GammaRun(args.mono)).v        \* line 390
       IN  ret' = [ibands |-> IbandsPassed(args.nzeta, args.excluded, ib),
                   nzeta |-> NzetaPassed(args.nzeta, args.excluded, ib),
                   result |-> _coef_guess(guess_, args.nzeta, args.excluded,
                                          ib, args.onNegative)]
    /\ UNCHANGED <<onionVars, args>>

NextCoefGuess == CallCoefGuess

SpecCoefGuess == InitCoefGuess /\ [][NextCoefGuess]_vars

\* the bands picked for a frozen parent shell of nzeta vector nzeta0: those
\* of the range [0, (2l+1)*nzeta0[l]) of every channel l
ParentBands(nzeta0, ibsp) ==
    UNION {{ibsp[l][k] : k \in 1..Len(Slice(ibsp[l], 0,
                                            (2 * (l - 1) + 1) * nzeta0[l]))}
           : l \in 1..Min2(Len(nzeta0), Len(ibsp))}

\* C11: in the jy case, for a child shell whose nzeta is componentwise >=
\* its parent's, no band picked for the frozen parent is among the band
\* indices passed to the initial-guess generator for the child.
C11_ParentBandsExcluded ==
    (pc = "done" /\ args.excluded.some /\ ret.ibands.some
        /\ Leq(args.excluded.v, args.nzeta)) =>
        \A k \in 1..Len(ret.ibands.v) :
            ret.ibands.v[k] \notin
                ParentBands(args.excluded.v,
                            _nzeta_analysis(GammaRun(args.mono)).v[1])

\* the channels with newly added zeta functions for which no band is picked
StarvedChannels(nzeta_, excl, ibsp) ==
    {l \in 1..ZipLen(nzeta_, excl) :
        /\ nzeta_[l] > excl[l]
        /\ Slice(ibsp[l], (2 * (l - 1) + 1) * excl[l],
                 (2 * (l - 1) + 1) * nzeta_[l]) = <<>>}

\* C12: in the jy case, when no eligible band is found for a channel that
\* has newly added zeta functions, _coef_guess fails with the assertion of
\* line 401 and passes nothing to the initial-guess generator.
C12_StarvedChannelFails ==
    (pc = "done"
        /\ StarvedChannels(args.nzeta, ExcludedOf(args.nzeta, args.excluded),
                           _nzeta_analysis(GammaRun(args.mono)).v[1]) # {}) =>
        /\ ret.result = Raise("AssertionError")
        /\ ~ret.ibands.some

\* the excluded count of channel l, 0 for a channel the parent does not have
ExcludedAt(excl, l) == IF l <= Len(excl) THEN excl[l] ELSE 0

\* C24: in the jy case for a shell with a parent, the numbers of new zeta
\* functions asked of the generator have one entry per channel of the
\* shell's nzeta, nzeta[l] - excluded[l] with excluded[l] = 0 for a channel
\* the parent does not have, and the bands of the new range of such a
\* channel are among the bands passed.
C24_NewChannelRequested ==
    (pc = "done" /\ args.excluded.some /\ ret.nzeta.some) =>
        /\ ret.nzeta.v =
              [l \in 1..Len(args.nzeta) |->
                  args.nzeta[l] - ExcludedAt(args.excluded.v, l)]
        /\ \A l \in 1..Len(args.nzeta) :
              LET ibsp == _nzeta_analysis(GammaRun(args.mono)).v[1]
                  new == Slice(ibsp[l],
                               (2 * (l - 1) + 1)
                                   * ExcludedAt(args.excluded.v, l),
                               (2 * (l - 1) + 1) * args.nzeta[l])
              IN  \A k \in 1..Len(new) :
                      \E j \in 1..Len(ret.ibands.v) : ret.ibands.v[j] = new[k]

-----------------------------------------------------------------------------
(* The band-to-channel assignment: _nzeta_analysis on one monomer run. *)

\* PureBands(1) with band 0 leaking into the p channel: its weight there is
\* count_thr itself
ThresholdBands ==
    [PureBands(1) EXCEPT ![1] =
        [l1 \in 1..MaxChannels |->
            IF l1 = 1 THEN 10 - CountThr ELSE IF l1 = 2 THEN CountThr ELSE 0]]

\* the band weights of one (spin, k) step
StepWeights == {PureBands(1), MixedBands, ThresholdBands}

InitAnalysis ==
    /\ InitIdleOnion
    /\ pc = "start"
    /\ args \in UNION {[nspin : {ns}, nk : {nk},
                        wll : [1..(ns * nk) -> StepWeights]]
                       : <<ns, nk>> \in (1..2) \X (1..MaxKpts)}
    /\ ret = Pending

CallNzetaAnalysis ==
    /\ pc = "start"
    /\ pc' = "done"
    /\ ret' = _nzeta_analysis(args)
    /\ UNCHANGED <<onionVars, args>>

NextAnalysis == CallNzetaAnalysis

SpecAnalysis == InitAnalysis /\ [][NextAnalysis]_vars

\* the bands listed for channel l in row sp of the result
AssignedTo(out, sp, l) == {out[sp][l][k] : k \in 1..Len(out[sp][l])}

\* C22: band ib is assigned to channel l if and only if its weight for l
\* exceeds count_thr; a band whose weight equals the threshold is not
\* assigned.  Row sp of the result collects the steps written into it.
C22_AssignedIffAboveThreshold ==
    (pc = "done" /\ ret.ok) =>
        \A sp \in 1..args.nspin : \A l \in 1..MaxChannels :
            \A b1 \in 1..(MaxZeta * MaxChannels * MaxChannels) :
                (b1 - 1) \in AssignedTo(ret.v, sp, l) <=>
                    \E j \in 1..Len(StepsInto(args, sp)) :
                        LET wlb == args.wll[StepsInto(args, sp)[j] + 1]
                        IN  b1 <= Len(wlb) /\ wlb[b1][l] > CountThr

-----------------------------------------------------------------------------
(* Zeta-count inference: _nzeta_infer on one configuration. *)

\* the k-point weight 1.0 in the unit of the model: weights are halves
WkOne == 2

\* sum of a sequence of integers
RECURSIVE SumSeq(_)
SumSeq(q) == IF q = <<>> THEN 0 ELSE Head(q) + SumSeq(Tail(q))

\* a value num/den with den > 0, and the order of two such values
Frac(n, d) == [num |-> n, den |-> d]

LeqFrac(x, y) == x.num * y.den <= y.num * x.den

\* the per-channel counts wfc_analysis_api yields for one (spin, k) step:
\* nz[l] singular values above svd_thr (lines 733-739)
NzEstimates(nl) == {[l \in 1..nl |-> IF l = 1 THEN 1 ELSE 0],
                    [l \in 1..nl |-> IF l = 1 THEN 2 ELSE 1]}

\* one (spin, k) point of a run of nb bands: the estimate of the analysis
\* and the number of occupied bands, the lower estimate going with one
\* band left empty
StepData(nl, nb) ==
    {[nz |-> e, nocc |-> IF e[1] = 1 THEN nb - 1 ELSE nb]
        : e \in NzEstimates(nl)}

\* what _nzeta_infer reads from a configuration folder: nspin of INPUT and
\* of the log, the k-point weights wk of the log, the number of atom types,
\* the bands computed (wfc.shape[1]), and, spin-up k-points first, for the
\* k-point ik of spin is at index is * nk + ik + 1: nocc the occupied bands
\* of istate.info and nz the estimate of the analysis of its file, over
\* the nl channels of the basis of the configuration
Configurations(nl) ==
    UNION {{[nspin |-> ns, running_nspin |-> t[1], wk |-> t[2],
             ntype |-> t[3], nbnd |-> nb,
             nocc |-> [i \in 1..(ns * nk) |-> t[4][i].nocc],
             nz |-> [i \in 1..(ns * nk) |-> t[4][i].nz]]
            : t \in (1..2) \X [1..nk -> 1..WkOne] \X (1..2)
                       \X [1..(ns * nk) -> StepData(nl, nb)]}
           : <<ns, nk, nb>> \in (1..2) \X (1..MaxKpts) \X (1..MaxBands)}

\* the nband argument: an int, or one of the strings 'occ' and 'all'
NbandArgs ==
    {[kind |-> "int", n |-> n] : n \in 0..(MaxBands + 1)}
        \cup {[kind |-> k, n |-> 0] : k \in {"occ", "all"}}

\* line 726: nband itself when an int, else eval('n' + nband), nocc being
\* the occupied bands and nall all the bands read from istate.info
EvalNband(nband, nocc, nall) ==
    IF nband.kind = "int" THEN nband.n
    ELSE IF nband.kind = "occ" THEN nocc
    ELSE nall

\* a faulty variant of BandsSuffice: a request of all the computed bands is
\* refused
BandsSufficeStrict(shape1, nband) == shape1 > nband

\* the condition asserted in line 727
BandsSuffice(shape1, nband) == shape1 >= nband

\* np.resize(a, n): a repeated as often as needed to fill n entries
Resize(a, n) == [i \in 1..n |-> a[((i - 1) % Len(a)) + 1]]

\* lines 717-742, the steps isk (a Python index) onwards: acc is the
\* weighted sum of the estimates, as numerators over the denominator
\* WkOne * nspin; nband is the local variable, rebound in line 726; used
\* records for every step the occ[is_][ik_] looked up and the band count
RECURSIVE InferLoop(_, _, _, _, _)
InferLoop(c, nband, isk, acc, used) ==
    IF isk >= c.nspin * Len(c.wk) THEN Ok([acc |-> acc, used |-> used])
    ELSE LET ik == isk % Len(c.wk)                             \* line 718
             is_ == isk % c.nspin                              \* line 718
             w == c.wk[ik + 1]                                 \* line 719
             ik_ == isk % Len(c.wk)          \* line 722: k of file isk+1
             nocc == c.nocc[is_ * Len(c.wk) + ik_ + 1]         \* line 723
             nall == c.nbnd                                    \* line 724
             n == EvalNband(nband, nocc, nall)                 \* line 726
             nz == c.nz[isk + 1]                               \* 733-740
         IN  IF ~BandsSuffice(c.nbnd, n)
             THEN Raise("size-mismatch")                       \* line 727
             ELSE LET grown == Resize(acc, Max2(Len(acc), Len(nz)))
                  IN  IF Len(nz) # Len(grown) /\ Len(nz) # 1
                      THEN Raise("ValueError")                 \* broadcast
                      ELSE InferLoop(c, [kind |-> "int", n |-> n], isk + 1,
                               [l \in 1..Len(grown) |->
                                   grown[l] + nz[Min2(l, Len(nz))] * w],
                               Append(used, [is_ |-> is_, ik_ |-> ik_,
                                             nband |-> n]))   \* line 742

\* _nzeta_infer(folder, nband, pop, svd_thr): the real-valued nzeta of one
\* configuration, nzeta[l] = v[l] / den
_nzeta_infer(c, nband) ==
    IF c.nspin # c.running_nspin
    THEN Raise("nspin-mismatch")                               \* line 710
    ELSE LET r == InferLoop(c, nband, 0, <<0>>, <<>>)          \* line 716
         IN  IF ~r.ok THEN r
             ELSE IF c.ntype # 1
             THEN Raise("multiple-atom-types")                 \* line 745
             ELSE Ok([den |-> WkOne * c.nspin, v |-> r.v.acc]) \* line 747

InitInfer ==
    /\ InitIdleOnion
    /\ pc = "start"
    /\ args \in [folder : Configurations(MaxChannels), nband : NbandArgs]
    /\ ret = Pending

CallNzetaInfer ==
    /\ pc = "start"
    /\ pc' = "done"
    /\ ret' = _nzeta_infer(args.folder, args.nband)
    /\ UNCHANGED <<onionVars, args>>

NextInfer == CallNzetaInfer

SpecInfer == InitInfer /\ [][NextInfer]_vars

\* the number of bands the call asks for
Requested ==
    EvalNband(args.nband, args.folder.nocc[1], args.folder.nbnd)

\* C13: on a configuration whose INPUT and log agree on nspin, _nzeta_infer
\* fails with the size-mismatch error exactly when the requested number of
\* bands is larger than the number of bands computed; a request of at most
\* the computed number, the computed number itself included, succeeds (on
\* a single atom type).
C13_SizeMismatchIffTooManyBands ==
    (pc = "done" /\ args.folder.nspin = args.folder.running_nspin) =>
        /\ (ret = Raise("size-mismatch")) <=> (Requested > args.folder.nbnd)
        /\ (Requested <= args.folder.nbnd /\ args.folder.ntype = 1) => ret.ok

\* C13 witness: all the computed bands were requested, as an int, and the
\* inference returned
C13_Witness ==
    /\ pc = "done"
    /\ args.nband.kind = "int"
    /\ args.nband.n = args.folder.nbnd
    /\ args.folder.nspin = 2
    /\ Len(args.folder.wk) = 2
    /\ ret.ok

\* C14: the value returned is the sum over the (spin, k) steps of the
\* estimate times the k-point weight, divided by the number of spin
\* channels, and the inference fails when the k-point weights do not sum
\* to 1.
C14_WeightsMustSumToOne ==
    pc = "done" =>
        /\ ret.ok =>
              /\ ret.v.den = WkOne * args.folder.nspin
              /\ \A l \in 1..MaxChannels :
                    ret.v.v[l] =
                        SumSeq([isk \in 1..Len(args.folder.nz) |->
                            args.folder.nz[isk][l]
                              * args.folder.wk[((isk - 1)
                                    % Len(args.folder.wk)) + 1]])
        /\ SumSeq(args.folder.wk) # WkOne => ~ret.ok

\* what the steps of the call looked up and used, in loop order
StepsTaken == InferLoop(args.folder, args.nband, 0, <<0>>, <<>>).v.used

\* C26: with nband given as 'occ' (or 'all'), the number of bands used at
\* each (spin, k) step is the occupied (or total) band count of that step's
\* own spin and k-point, for every step of the loop.
C26_OccupiedBandsOfEachStep ==
    (pc = "done" /\ ret.ok /\ args.nband.kind # "int") =>
        \A isk \in 0..(args.folder.nspin * Len(args.folder.wk) - 1) :
            StepsTaken[isk + 1].nband =
                IF args.nband.kind = "occ" THEN args.folder.nocc[isk + 1]
                ELSE args.folder.nbnd

\* C27: with nspin = 2 and nk k-points, spin-up k-points first, the
\* (spin, k) pairs used to look up occupations over isk in 0..2*nk-1 are
\* pairwise distinct and cover every spin and every k-point once, with
\* spin = isk div nk.
C27_SpinMajorLookup ==
    (pc = "done" /\ ret.ok /\ args.folder.nspin = 2) =>
        LET nk == Len(args.folder.wk)
        IN  /\ \A isk \in 0..(2 * nk - 1) :
                  /\ StepsTaken[isk + 1].is_ = isk \div nk
                  /\ StepsTaken[isk + 1].ik_ = isk % nk
            /\ \A i, j \in 1..(2 * nk) :
                  (StepsTaken[i].is_ = StepsTaken[j].is_
                      /\ StepsTaken[i].ik_ = StepsTaken[j].ik_) => i = j
            /\ \A sp \in 0..1 : \A k \in 0..(nk - 1) :
                  \E i \in 1..(2 * nk) :
                      StepsTaken[i].is_ = sp /\ StepsTaken[i].ik_ = k

-----------------------------------------------------------------------------
(* Zeta-count inference: _nzeta_mean_conf over several configurations. *)

AddFrac(x, y) == Frac(x.num * y.den + y.num * x.den, x.den * y.den)

EqFrac(x, y) == x.num * y.den = y.num * x.den

\* the largest of a non-empty set of values
MaxFrac(S) == CHOOSE x \in S : \A y \in S : LeqFrac(y, x)

\* the sum of a sequence of values
RECURSIVE SumFrac(_)
SumFrac(q) == IF q = <<>> THEN Frac(0, 1) ELSE AddFrac(Head(q), SumFrac(Tail(q)))

\* lines 672-673 on the stacked estimates (all of one length): np.max or
\* np.mean over the folder axis
_nzeta_stat(ests, statistics) ==
    [l \in 1..Len(ests[1].v) |->
        LET col == [f \in 1..Len(ests) |-> Frac(ests[f].v[l], ests[f].den)]
        IN  IF statistics = "max"
            THEN MaxFrac({col[f] : f \in 1..Len(col)})
            ELSE LET t == SumFrac(col)
                 IN  Frac(t.num, t.den * Len(col))]

\* _nzeta_mean_conf(nbands, folders, statistics, pop): the estimates of the
\* folders combined into one vector of values
_nzeta_mean_conf(nbands, folders, statistics) ==
    IF statistics \notin {"max", "mean"}
    THEN Raise("AssertionError")                               \* line 656
    ELSE LET inferred == [f \in 1..Len(folders) |->
                             _nzeta_infer(folders[f], nbands)] \* line 666
             failed == {f \in 1..Len(folders) : ~inferred[f].ok}
         IN  IF failed # {}
             THEN inferred[CHOOSE f \in failed : \A g \in failed : f <= g]
             ELSE LET ests == [f \in 1..Len(folders) |-> inferred[f].v]
                      max_shape == MaxOf({Len(ests[f].v) :
                                             f \in 1..Len(ests)}) \* 667
                  IN  IF \E f \in 1..Len(ests) : Len(ests[f].v) # max_shape
                      THEN Raise("ValueError")      \* reshape of line 671
                      ELSE Ok(_nzeta_stat(ests, statistics))   \* 672-673

\* a configuration of one atom type, one spin, consistent metadata and
\* MaxBands bands, with k-point weights wk_ and step estimates nz_
Folder(wk_, nz_) ==
    [nspin |-> 1, running_nspin |-> 1, wk |-> wk_, ntype |-> 1,
     nbnd |-> MaxBands, nocc |-> [i \in 1..Len(nz_) |-> MaxBands],
     nz |-> nz_]

\* the two estimates of NzEstimates(nl)
LoEstimate(nl) == [l \in 1..nl |-> IF l = 1 THEN 1 ELSE 0]

HiEstimate(nl) == [l \in 1..nl |-> IF l = 1 THEN 2 ELSE 1]

\* the folders of the model, with nl channels: a gamma-point run of either
\* estimate, and a run of two k-points whose estimates differ
FoldersOf(nl) ==
    {Folder(<<WkOne>>, <<LoEstimate(nl)>>),
     Folder(<<WkOne>>, <<HiEstimate(nl)>>),
     Folder(<<1, WkOne - 1>>, <<LoEstimate(nl), HiEstimate(nl)>>)}

AllFolders == UNION {FoldersOf(nl) : nl \in 1..MaxChannels}

InitMeanConf ==
    /\ InitIdleOnion
    /\ pc = "start"
    /\ args \in [nbands : {[kind |-> "int", n |-> n] :
                               n \in {MaxBands, MaxBands + 1}},
                 folders : UNION {[1..n -> AllFolders] : n \in 1..MaxFolders},
                 statistics : {"max", "mean", "median"}]
    /\ ret = Pending

CallNzetaMeanConf ==
    /\ pc = "start"
    /\ pc' = "done"
    /\ ret' = _nzeta_mean_conf(args.nbands, args.folders, args.statistics)
    /\ UNCHANGED <<onionVars, args>>

NextMeanConf == CallNzetaMeanConf

SpecMeanConf == InitMeanConf /\ [][NextMeanConf]_vars

\* the estimate of folder f of the call in channel l, a channel the folder
\* lacks counting as 0
EstimateOf(f, l) ==
    LET e == _nzeta_infer(args.folders[f], args.nbands).v
    IN  IF l <= Len(e.v) THEN Frac(e.v[l], e.den) ELSE Frac(0, 1)

\* the largest number of channels among the estimates of the call
WidestEstimate ==
    MaxOf({Len(_nzeta_infer(args.folders[f], args.nbands).v.v) :
              f \in 1..Len(args.folders)})

\* C15: when the inference of every folder succeeds, _nzeta_mean_conf
\* returns one vector over the channels of the widest estimate that is, per
\* channel, the maximum of the folders' estimates under 'max' and their sum
\* divided by the number of folders under 'mean', also when the estimates
\* have different numbers of channels.
C15_MaxOrMeanOfFolders ==
    (/\ pc = "done"
     /\ args.statistics \in {"max", "mean"}
     /\ \A f \in 1..Len(args.folders) :
           _nzeta_infer(args.folders[f], args.nbands).ok) =>
        /\ ret.ok
        /\ Len(ret.v) = WidestEstimate
        /\ \A l \in 1..WidestEstimate :
              IF args.statistics = "max"
              THEN /\ \A f \in 1..Len(args.folders) :
                         LeqFrac(EstimateOf(f, l), ret.v[l])
                   /\ \E f \in 1..Len(args.folders) :
                         EqFrac(EstimateOf(f, l), ret.v[l])
              ELSE EqFrac(Frac(ret.v[l].num * Len(args.folders),
                               ret.v[l].den),
                          SumFrac([f \in 1..Len(args.folders) |->
                                      EstimateOf(f, l)]))

-----------------------------------------------------------------------------
(* _coef_opt_jy, lines 134-147: the nzeta of every orbital, given or      *)
(* inferred, made an integer.                                             *)

\* a faulty variant of Ceil: int(nz), which drops the fractional part
CeilAsInt(x) == x.num \div x.den

\* int(np.ceil(nz)) of line 147
Ceil(x) == -((-x.num) \div x.den)

\* the orbitals of the model: nzeta is "auto" (None) or given, nbands_ref
\* is a number of bands, folders are the configurations of the orbital
Orbitals ==
    [nzeta : {None},
     nbands_ref : {[kind |-> "int", n |-> MaxBands]},
     folders : UNION {[1..n -> FoldersOf(MaxChannels)
                                  \ {Folder(<<WkOne>>,
                                             <<LoEstimate(MaxChannels)>>)}]
                      : n \in 1..MaxFolders}]
    \cup
    [nzeta : {Some(LoEstimate(MaxChannels)), Some(HiEstimate(MaxChannels))},
     nbands_ref : {[kind |-> "int", n |-> MaxBands]},
     folders : {<<Folder(<<WkOne>>, <<HiEstimate(MaxChannels)>>)>>}]

\* lines 140-145 for one orbital: the given nzeta, or the 'max' inference
\* over its folders, as values
NzetaOfOrb(orb) ==
    IF orb.nzeta.some
    THEN Ok([l \in 1..Len(orb.nzeta.v) |-> Frac(orb.nzeta.v[l], 1)])
    ELSE _nzeta_mean_conf(orb.nbands_ref, orb.folders, "max")

\* lines 140-147: the integer nzeta of every orbital
SizeNzeta(orbparams) ==
    LET raw == [i \in 1..Len(orbparams) |-> NzetaOfOrb(orbparams[i])]
        failed == {i \in 1..Len(orbparams) : ~raw[i].ok}
    IN  IF failed # {}
        THEN raw[CHOOSE i \in failed : \A j \in failed : i <= j]
        ELSE Ok([i \in 1..Len(orbparams) |->
                    [l \in 1..Len(raw[i].v) |-> Ceil(raw[i].v[l])]])
                                                               \* line 147

InitSizing ==
    /\ InitIdleOnion
    /\ pc = "start"
    /\ args \in UNION {[1..n -> Orbitals] : n \in 1..MaxShells}
    /\ ret = Pending

CallSizeNzeta ==
    /\ pc = "start"
    /\ pc' = "done"
    /\ ret' = SizeNzeta(args)
    /\ UNCHANGED <<onionVars, args>>

NextSizing == CallSizeNzeta

SpecSizing == InitSizing /\ [][NextSizing]_vars

\* n is the least integer >= the value x
LeastIntegerAbove(n, x) ==
    /\ n * x.den >= x.num
    /\ (n - 1) * x.den < x.num

\* C16: every nzeta entry _coef_opt_jy goes on with is the least integer
\* greater than or equal to the value given or inferred for it, so it is
\* never below the inferred value.
C16_SizingRoundsUp ==
    (pc = "done" /\ ret.ok) =>
        \A i \in 1..Len(args) :
            LET inferred == NzetaOfOrb(args[i]).v
            IN  /\ Len(ret.v[i]) = Len(inferred)
                /\ \A l \in 1..Len(inferred) :
                      LeastIntegerAbove(ret.v[i][l], inferred[l])

\* C16 witness: an orbital with nzeta "auto" whose inferred value is not an
\* integer in some channel has been sized
C16_Witness ==
    /\ pc = "done"
    /\ ret.ok
    /\ \E i \in 1..Len(args) :
         /\ ~args[i].nzeta.some
         /\ \E l \in 1..MaxChannels :
              NzetaOfOrb(args[i]).v[l].num % NzetaOfOrb(args[i]).v[l].den # 0

-----------------------------------------------------------------------------
(* The weight-sum estimator: _wll_fold. *)

\* wll[ib] of a band that lies in channel l alone, in tenths
PureWeights(l) ==
    [l1 \in 1..MaxChannels |->
        [l2 \in 1..MaxChannels |-> IF l1 = l /\ l2 = l THEN 10 ELSE 0]]

\* wll[ib] of a band of a multi-atom configuration whose s and p parts
\* interfere: diagonal terms 0.1 and 1.5, cross terms -0.3, in tenths (a
\* positive semidefinite matrix whose entries sum to 1)
InterferingWeights ==
    [l1 \in 1..MaxChannels |->
        [l2 \in 1..MaxChannels |->
            IF l1 = 1 /\ l2 = 1 THEN 1
            ELSE IF l1 = 2 /\ l2 = 2 THEN 15
            ELSE IF l1 <= 2 /\ l2 <= 2 THEN -3
            ELSE 0]]

BandWeights == {PureWeights(l) : l \in 1..MaxChannels} \cup {InterferingWeights}

\* the elements of a set of integers in increasing order
RECURSIVE SortedSeq(_)
SortedSeq(S) ==
    IF S = {} THEN <<>>
    ELSE LET m == CHOOSE x \in S : \A y \in S : x <= y
         IN  <<m>> \o SortedSeq(S \ {m})

\* the nband argument of _wll_fold: an int n (the bands range(n)) or a list
\* of band indices
BandSetArgs ==
    {[kind |-> "int", n |-> n, v |-> <<>>] : n \in 0..MaxBands}
        \cup {[kind |-> "list", n |-> 0, v |-> SortedSeq(S)]
                 : S \in SUBSET (0..(MaxBands - 1))}

\* line 768: the band indices the argument stands for
BandsOfArg(nband) == IF nband.kind = "int" THEN Range(0, nband.n) ELSE nband.v

\* line 773: np.sum(wll[ib].real, 1)[l], the sum over l' of row l
RowSum(wb, l) == SumSeq(wb[l])

\* _wll_fold(wll, nband): per channel l the sum over the bands of the row
\* sum divided by the degeneracy 2l+1, as a value in tenths
_wll_fold(wll, nband) ==
    LET bands == BandsOfArg(nband)                             \* line 768
        lmax_plus_1 == Len(wll[1])                             \* line 769
    IN  IF \E k \in 1..Len(bands) : bands[k] >= Len(wll)
        THEN Raise("IndexError")                               \* wll[ib]
        ELSE Ok([l \in 1..lmax_plus_1 |->
                    Frac(SumSeq([k \in 1..Len(bands) |->
                                    RowSum(wll[bands[k] + 1], l)]),
                         2 * (l - 1) + 1)])                    \* 771-774

\* the band indices of an argument, as a set
BandSet(nband) == {BandsOfArg(nband)[k] : k \in 1..Len(BandsOfArg(nband))}

InitWllFold ==
    /\ InitIdleOnion
    /\ pc = "start"
    /\ args \in [wll : [1..MaxBands -> BandWeights],
                 b1 : BandSetArgs, b2 : BandSetArgs]
    /\ BandSet(args.b1) \subseteq BandSet(args.b2)
    /\ ret = Pending

CallWllFold ==
    /\ pc = "start"
    /\ pc' = "done"
    /\ ret' = [fold1 |-> _wll_fold(args.wll, args.b1),
               fold2 |-> _wll_fold(args.wll, args.b2)]
    /\ UNCHANGED <<onionVars, args>>

NextWllFold == CallWllFold

SpecWllFold == InitWllFold /\ [][NextWllFold]_vars

\* C17: for one configuration, the weight-sum estimate over a band set B1
\* is componentwise <= the estimate over every band set B2 containing B1.
C17_FoldMonotonicInBands ==
    (pc = "done" /\ ret.fold1.ok /\ ret.fold2.ok) =>
        \A l \in 1..MaxChannels :
            LeqFrac(ret.fold1.v[l], ret.fold2.v[l])

-----------------------------------------------------------------------------
(* Configuration discovery: _orb_matrices.  A file name is the sequence   *)
(* of its characters.                                                     *)

\* the characters of the file names of the model, in ASCII order
Alphabet ==
    <<".", "0", "1", "2", "3", "4", "5", "6", "7", "8", "9",
      "I", "N", "P", "T", "U", "_",
      "a", "b", "c", "d", "e", "i", "m", "o", "r", "t", "u", "v", "x">>

CharCode(c) == CHOOSE i \in 1..Len(Alphabet) : Alphabet[i] = c

Digits == {"0", "1", "2", "3", "4", "5", "6", "7", "8", "9"}

OrbMatrixChars == <<"o", "r", "b", "_", "m", "a", "t", "r", "i", "x">>

RcutChars == <<"_", "r", "c", "u", "t">>

DerivChars == <<"d", "e", "r", "i", "v">>

DatChars == <<"d", "a", "t">>

\* the file name orb_matrix.D.dat
LegacyName(d) == OrbMatrixChars \o <<".", d, ".">> \o DatChars

\* the file name orb_matrix_rcutRderivD.dat, R a sequence of digits
NewName(r, d) ==
    OrbMatrixChars \o RcutChars \o r \o DerivChars \o <<d, ".">> \o DatChars

InputName == <<"I", "N", "P", "U", "T">>

\* re.match(r"orb_matrix.([01]).dat", f) of lines 470, 475: anchored at the
\* start only, every "." matching any character
MatchOld(f) ==
    /\ Len(f) >= 16
    /\ SubSeq(f, 1, 10) = OrbMatrixChars
    /\ f[12] \in {"0", "1"}
    /\ SubSeq(f, 14, 16) = DatChars

\* re.match(r"orb_matrix_rcut(\d+)deriv([01]).dat", f) of lines 471, 476
MatchNew(f) ==
    /\ Len(f) >= 15
    /\ SubSeq(f, 1, 15) = OrbMatrixChars \o RcutChars
    /\ \E k \in 1..(Len(f) - 15) :
         /\ \A i \in 16..(15 + k) : f[i] \in Digits
         /\ Len(f) >= 25 + k
         /\ SubSeq(f, 16 + k, 20 + k) = DerivChars
         /\ f[21 + k] \in {"0", "1"}
         /\ SubSeq(f, 23 + k, 25 + k) = DatChars

\* a < b for two strings, as Python compares them
RECURSIVE LexLess(_, _)
LexLess(a, b) ==
    IF b = <<>> THEN FALSE
    ELSE IF a = <<>> THEN TRUE
    ELSE IF Head(a) # Head(b) THEN CharCode(Head(a)) < CharCode(Head(b))
    ELSE LexLess(Tail(a), Tail(b))

\* sorted(names) for a sequence of distinct strings
RECURSIVE SortedNames(_)
SortedNames(S) ==
    IF S = {} THEN <<>>
    ELSE LET m == CHOOSE x \in S : \A y \in S \ {x} : LexLess(x, y)
         IN  <<m>> \o SortedNames(S \ {m})

\* a faulty variant of NoCoexistence: the assertion is missing
CoexistenceAllowed(old_files, new_files) == TRUE

\* the condition asserted in line 478
NoCoexistence(old_files, new_files) ==
    ~(old_files # <<>> /\ new_files # <<>>)

\* a faulty variant of LegacyPairValid: the assertion is missing
LegacyCountUnchecked(old_files) == TRUE

\* the condition asserted in line 479
LegacyPairValid(old_files) == Len(old_files) = 2 \/ old_files = <<>>

\* a faulty variant of EvenNewFiles: the assertion is missing
NewCountUnchecked(new_files) == TRUE

\* the condition asserted in line 480
EvenNewFiles(new_files) == Len(new_files) % 2 = 0 \/ new_files = <<>>

\* _orb_matrices(folder), iterated to its end: the pairs it yields, for a
\* folder whose os.listdir is the sequence listing of entries
_orb_matrices(listing) ==
    LET IsFile(e) == e.isfile
        entries == SelectSeq(listing, IsFile)                     \* line 473
        files == [i \in 1..Len(entries) |-> entries[i].name]
        old_files == SelectSeq(files, MatchOld)                   \* line 475
        new_files == SelectSeq(files, MatchNew)                   \* line 476
    IN  IF ~NoCoexistence(old_files, new_files)
        THEN Raise("AssertionError")                           \* line 478
        ELSE IF ~LegacyPairValid(old_files)
        THEN Raise("AssertionError")                           \* line 479
        ELSE IF ~EvenNewFiles(new_files)
        THEN Raise("AssertionError")                           \* line 480
        ELSE IF old_files # <<>>
        THEN IF Len(old_files) < 2
             THEN Raise("IndexError")                          \* line 483
             ELSE Ok(<< <<old_files[1], old_files[2]>> >>)     \* 483, 491
        ELSE IF new_files # <<>>
        THEN LET sorted == SortedNames({new_files[i] :
                                           i \in 1..Len(new_files)})
                                                               \* line 485
             IN  IF Len(sorted) % 2 # 0
                 THEN Raise("IndexError")                      \* line 488
                 ELSE Ok([i \in 1..(Len(sorted) \div 2) |->
                            <<sorted[2 * i - 1], sorted[2 * i]>>])
        ELSE Raise("TypeError")                  \* line 492: None iterated

\* the directory entries of the model: the two legacy files, the new-style
\* files of the cutoffs 6 and 10, an unrelated file, and a subdirectory
\* with a new-style name
DirEntries ==
    {[name |-> n, isfile |-> TRUE] :
        n \in {LegacyName("0"), LegacyName("1"),
               NewName(<<"6">>, "0"), NewName(<<"6">>, "1"),
               NewName(<<"1", "0">>, "0"), NewName(<<"1", "0">>, "1"),
               InputName}}
    \cup {[name |-> NewName(<<"7">>, "0"), isfile |-> FALSE]}

\* the listings os.listdir may return: up to n entries in any order
Listings(n) ==
    {q \in UNION {[1..k -> DirEntries] : k \in 0..n} :
        \A i, j \in 1..Len(q) : i # j => q[i] # q[j]}

InitOrbMatrices ==
    /\ InitIdleOnion
    /\ pc = "start"
    /\ args \in Listings(MaxFiles)
    /\ ret = Pending

CallOrbMatrices ==
    /\ pc = "start"
    /\ pc' = "done"
    /\ ret' = _orb_matrices(args)
    /\ UNCHANGED <<onionVars, args>>

NextOrbMatrices == CallOrbMatrices

SpecOrbMatrices == InitOrbMatrices /\ [][NextOrbMatrices]_vars

\* the names of the files (not the subdirectories) of the listed directory
FileNames == {args[i].name : i \in {j \in 1..Len(args) : args[j].isfile}}

LegacyNames == {LegacyName("0"), LegacyName("1")}

NewStyleNames ==
    {NewName(r, d) : r \in {<<"6">>, <<"7">>, <<"1", "0">>}, d \in {"0", "1"}}

\* C18: on a directory that holds both legacy files and no new-style file,
\* _orb_matrices yields exactly one pair, made of the two legacy files; on
\* a directory that holds only one of the two legacy files it fails with
\* the assertion error.
C18_LegacyPairOrFailure ==
    pc = "done" =>
        /\ (LegacyNames \subseteq FileNames
                /\ FileNames \cap NewStyleNames = {}) =>
              /\ ret.ok
              /\ Len(ret.v) = 1
              /\ {ret.v[1][1], ret.v[1][2]} = LegacyNames
        /\ Cardinality(LegacyNames \cap FileNames) = 1 =>
              ret = Raise("AssertionError")

\* C18 witness: a directory listed with orb_matrix.1.dat before
\* orb_matrix.0.dat and an unrelated file, discovered
C18_Witness ==
    /\ pc = "done"
    /\ FileNames = LegacyNames \cup {InputName}
    /\ \E i, j \in 1..Len(args) :
         /\ i < j
         /\ args[i].name = LegacyName("1")
         /\ args[j].name = LegacyName("0")
    /\ ret.ok

\* C19: on a directory that holds at least one legacy file and at least one
\* new-style file, _orb_matrices fails with the assertion error and yields
\* no pair, whatever the numbers of the two kinds.
C19_CoexistenceFails ==
    (pc = "done" /\ FileNames \cap LegacyNames # {}
        /\ FileNames \cap NewStyleNames # {}) =>
        ret = Raise("AssertionError")

\* C19 witness: both legacy files and both files of one cutoff are there
C19_Witness ==
    /\ pc = "done"
    /\ LegacyNames \subseteq FileNames
    /\ Cardinality(FileNames \cap NewStyleNames) = 2
    /\ ~ret.ok

\* C20: on a directory that holds an odd number of new-style files,
\* _orb_matrices fails with the assertion error.
C20_OddNewFilesFail ==
    (pc = "done" /\ Cardinality(FileNames \cap NewStyleNames) % 2 = 1) =>
        ret = Raise("AssertionError")

\* C20 witness: three new-style files and no legacy file
C20_Witness ==
    /\ pc = "done"
    /\ Cardinality(FileNames \cap NewStyleNames) = 3
    /\ FileNames \cap LegacyNames = {}
    /\ ~ret.ok

\* the number a sequence of digits writes
RECURSIVE DigitsValue(_)
DigitsValue(r) ==
    IF r = <<>> THEN 0
    ELSE 10 * DigitsValue(SubSeq(r, 1, Len(r) - 1))
         + (CharCode(r[Len(r)]) - CharCode("0"))

\* the number of digits of the cutoff of a new-style file name
RcutLen(f) ==
    CHOOSE k \in 1..(Len(f) - 15) :
        /\ \A i \in 16..(15 + k) : f[i] \in Digits
        /\ f[16 + k] \notin Digits

\* the cutoff R and the derivative order D of orb_matrix_rcutRderivD.dat
CutoffOf(f) == DigitsValue(SubSeq(f, 16, 15 + RcutLen(f)))

DerivOf(f) == f[21 + RcutLen(f)]

\* the listed directory holds new-style files and no legacy file
NewStyleDirectory ==
    /\ FileNames \cap LegacyNames = {}
    /\ FileNames \cap NewStyleNames # {}

\* C21: for a directory of new-style files, the pairs are yielded in the
\* order of their cutoffs compared as numbers: the pair of a cutoff R1 comes
\* before the pair of every cutoff R2 > R1.
C21_PairsSortedByCutoffValue ==
    (pc = "done" /\ NewStyleDirectory /\ ret.ok) =>
        \A i, j \in 1..Len(ret.v) :
            CutoffOf(ret.v[i][1]) < CutoffOf(ret.v[j][1]) => i < j

\* C28: for a legacy directory, the pair yielded is (orb_matrix.0.dat,
\* orb_matrix.1.dat) in that order, whatever the order of the listing.
C28_LegacyPairOrdered ==
    (pc = "done" /\ LegacyNames \subseteq FileNames
        /\ FileNames \cap NewStyleNames = {} /\ ret.ok) =>
        ret.v = << <<LegacyName("0"), LegacyName("1")>> >>

\* C29: every pair yielded for a new-style directory is the deriv0 file
\* and the deriv1 file of one and the same cutoff, in that order; no pair
\* mixes two cutoffs.
C29_PairsOfOneCutoff ==
    (pc = "done" /\ NewStyleDirectory /\ ret.ok) =>
        \A i \in 1..Len(ret.v) :
            /\ CutoffOf(ret.v[i][1]) = CutoffOf(ret.v[i][2])
            /\ DerivOf(ret.v[i][1]) = "0"
            /\ DerivOf(ret.v[i][2]) = "1"

-----------------------------------------------------------------------------
(* Configuration accumulation of _coef_opt_jy and _coef_opt_pw.             *)

\* folders[g]: the folders of geometry g, one per deformation
FolderGroups == << <<"dimer-1", "dimer-2">>, <<"trimer-1">> >>

\* orb['folder'] of one orbital: the geometries it is fitted to
GeometryLists == {<<0>>, <<1>>, <<0, 1>>}

\* the folders of the geometries referred to by some orbital (line 124)
ReferredFolders(orbs) ==
    {FolderGroups[orbs[i][j] + 1][k] :
        <<i, j, k>> \in {t \in (1..Len(orbs)) \X (1..2) \X (1..2) :
            /\ t[2] <= Len(orbs[t[1]])
            /\ t[3] <= Len(FolderGroups[orbs[t[1]][t[2]] + 1])}}

\* list(set(...)) of line 125: the folders once each, in the order the set
\* happens to iterate
OrdersOf(S) ==
    {q \in [1..Cardinality(S) -> S] :
        \A i, j \in 1..Cardinality(S) : q[i] = q[j] => i = j}

\* configs.index(folder)
IndexIn(configs, folder) ==
    (CHOOSE i \in 1..Len(configs) : configs[i] = folder) - 1

\* lines 127-129: for every orbital the indices in configs of the folders
\* of its geometries
IconfsOf(orbs, configs) ==
    [i \in 1..Len(orbs) |->
        flatten([j \in 1..Len(orbs[i]) |->
            [k \in 1..Len(FolderGroups[orbs[i][j] + 1]) |->
                IndexIn(configs, FolderGroups[orbs[i][j] + 1][k])]])]

\* lines 131-132: the configurations the jy minimizer holds after the loop,
\* each named by the folder it was loaded from
ConfigAddJy(configs) == configs

\* lines 203-210: the configurations the pw minimizer holds after the loop;
\* matching[f] is the number of pairs of _orb_matrices(f) whose rcut is the
\* rcut of the call, and one configuration is added per such pair
ConfigAddPw(configs, matching) ==
    flatten([i \in 1..Len(configs) |->
                [k \in 1..matching[configs[i]] |-> configs[i]]])

InitConfigs ==
    /\ InitIdleOnion
    /\ pc = "start"
    /\ args \in [fit_basis : {"jy", "pw"},
                 orbs : UNION {[1..n -> GeometryLists] : n \in 1..MaxShells},
                 matching : [ReferredFolders(<<<<0, 1>>>>) -> 0..MaxPairs]]
    /\ ret = Pending

CallCoefOptJy ==
    /\ pc = "start"
    /\ args.fit_basis = "jy"
    /\ pc' = "done"
    /\ \E configs \in OrdersOf(ReferredFolders(args.orbs)) :
         ret' = [configs |-> configs,
                 iconfs |-> IconfsOf(args.orbs, configs),
                 held |-> ConfigAddJy(configs)]
    /\ UNCHANGED <<onionVars, args>>

CallCoefOptPw ==
    /\ pc = "start"
    /\ args.fit_basis = "pw"
    /\ pc' = "done"
    /\ \E configs \in OrdersOf(ReferredFolders(args.orbs)) :
         ret' = [configs |-> configs,
                 iconfs |-> IconfsOf(args.orbs, configs),
                 held |-> ConfigAddPw(configs, args.matching)]
    /\ UNCHANGED <<onionVars, args>>

NextConfigs == CallCoefOptJy \/ CallCoefOptPw

SpecConfigs == InitConfigs /\ [][NextConfigs]_vars

\* the folders orbital i (from 1) was given, in the order of iconfs
FoldersOfOrb(orbs, i) ==
    flatten([j \in 1..Len(orbs[i]) |-> FolderGroups[orbs[i][j] + 1]])

\* C25: after the accumulation the i-th configuration the minimizer holds
\* is the data of folder configs[i], each folder added exactly once, so
\* every index of iconfs[iorb] refers in the minimizer to the folder it was
\* computed from; in the pw case for every number of matching pairs.
C25_IconfsReferToTheirFolders ==
    pc = "done" =>
        /\ ret.held = ret.configs
        /\ \A i \in 1..Len(args.orbs) :
              \A j \in 1..Len(ret.iconfs[i]) :
                  /\ ret.iconfs[i][j] + 1 <= Len(ret.held)
                  /\ ret.held[ret.iconfs[i][j] + 1]
                        = FoldersOfOrb(args.orbs, i)[j]

-----------------------------------------------------------------------------
(* run: the loop over the cutoff radii, generation and saving of the levels. *)

\* the cutoff radii a run may list (bessel_nao_rcut), in au
Radii == 6..(5 + MaxRcuts)

\* the lists of pairwise different radii
RcutLists ==
    UNION {{q \in [1..n -> Radii] : \A i, j \in 1..n : q[i] = q[j] => i = j}
           : n \in 1..MaxRcuts}

\* orb['nzeta'] of the levels of siab_settings['orbitals']
LevelNzetas == {<<1>>, <<1, 1>>, <<2, 1>>}

OrbitalLists == UNION {[1..n -> LevelNzetas] : n \in 1..MaxShells}

\* _nbes(l, rcut, ecut) at the energy cutoff of the run: the number of
\* spherical Bessel functions of channel l within rcut
_nbes(l, rcut) == rcut - l

\* the shape of _coef_gen(rcut, ecut, lmax): per channel l <= lmax the
\* number of rows of the identity matrix np.eye(nbes_rcut[l]) (lines 47-49)
_coef_gen(rcut, lmax) == [l1 \in 1..(lmax + 1) |-> _nbes(l1 - 1, rcut)]

\* the shape of the coefficients _coef_opt returns for a level: nzeta[l]
\* functions in channel l
_coef_opt(nzeta_) == nzeta_

\* lines 601-618: the shapes of coefs_tot for one radius, or the exception
\* raised; failing holds the radii at which the optimisation raises
Generate(run_type, orbitals, rcut, failing) ==
    IF run_type = "opt"                                        \* line 605
    THEN IF rcut \in failing THEN Raise("opt")
         ELSE Ok([i \in 1..Len(orbitals) |-> _coef_opt(orbitals[i])])
    ELSE IF run_type = "restart"
    THEN Raise("NotImplementedError")                          \* line 619
    ELSE Ok([i \in 1..Len(orbitals) |->
                _coef_gen(rcut, Len(orbitals[i]) - 1)])        \* line 621

\* lines 530-532 and 626: the file name _save_orb writes to, elem and ecut
\* being those of the run: folder and base name carry rcut, the suffix
\* carries len(coef) of every channel
FileName(rcut, shape) == [rcut |-> rcut, suffix |-> shape]

InitRun ==
    /\ InitIdleOnion
    /\ pc = "generate"
    /\ args \in [rcuts : RcutLists,
                 run_type : {"opt", "restart", "none"},
                 orbitals : OrbitalLists,
                 failing : SUBSET Radii]
    /\ ret = [irc |-> 1, ilev |-> 0, coefs_tot |-> <<>>,
              files |-> {}, saved |-> <<>>]

\* the generation of one radius (lines 601-621); an exception leaves run
RunGenerate ==
    /\ pc = "generate"
    /\ LET g == Generate(args.run_type, args.orbitals,
                         args.rcuts[ret.irc], args.failing)
       IN  IF g.ok
           THEN /\ pc' = "save"
                /\ ret' = [ret EXCEPT !.ilev = 0, !.coefs_tot = g.v]
           ELSE /\ pc' = "raised"
                /\ ret' = ret
    /\ UNCHANGED <<onionVars, args>>

\* one turn of the loop of lines 626-629: level ilev is saved, replacing any
\* file of the same name; after the last level the next radius follows,
\* after the last radius run returns
RunSave ==
    /\ pc = "save"
    /\ LET rcut == args.rcuts[ret.irc]
           name == FileName(rcut, ret.coefs_tot[ret.ilev + 1])
           last == ret.ilev + 1 = Len(ret.coefs_tot)
       IN  /\ ret' = [ret EXCEPT
                  !.files = {f \in ret.files : f.name # name}
                               \cup {[name |-> name, ilev |-> ret.ilev]},
                  !.saved = Append(ret.saved,
                                [rcut |-> rcut, ilev |-> ret.ilev,
                                 name |-> name]),
                  !.ilev = IF last THEN 0 ELSE ret.ilev + 1,
                  !.irc = IF last THEN ret.irc + 1 ELSE ret.irc]
           /\ pc' = IF ~last THEN "save"
                    ELSE IF ret.irc = Len(args.rcuts) THEN "returned"
                    ELSE "generate"
    /\ UNCHANGED <<onionVars, args>>

NextRun == RunGenerate \/ RunSave

SpecRun == InitRun /\ [][NextRun]_vars

\* the radii at which the processing raises
FailingRadii ==
    {r \in Radii : ~Generate(args.run_type, args.orbitals, r,
                             args.failing).ok}

\* C23: a failure raised while processing one cutoff radius is local to that
\* radius: once run has ended, no file of a failing radius is written, and
\* every level of every other radius of the list has been saved.
C23_FailureLocalToRadius ==
    pc \in {"returned", "raised"} =>
        \A i \in 1..Len(args.rcuts) :
            IF args.rcuts[i] \in FailingRadii
            THEN \A f \in ret.files : f.name.rcut # args.rcuts[i]
            ELSE \A ilev \in 0..(Len(args.orbitals) - 1) :
                    \E k \in 1..Len(ret.saved) :
                        /\ ret.saved[k].rcut = args.rcuts[i]
                        /\ ret.saved[k].ilev = ilev

\* C30: within one cutoff radius no level's output is overwritten by
\* another level: any two distinct levels are saved under distinct file
\* names, in the optimisation mode and in the 'none' mode.
C30_LevelsSavedUnderDistinctNames ==
    \A i, j \in 1..Len(ret.saved) :
        (ret.saved[i].rcut = ret.saved[j].rcut
            /\ ret.saved[i].ilev # ret.saved[j].ilev) =>
            ret.saved[i].name # ret.saved[j].name

-----------------------------------------------------------------------------
(* _do_onion_opt: the shells optimised one after the other, in list order. *)

\* deps lists of n shells: 0 is None, otherwise the index of another shell,
\* and following the parents from any shell ends at a shell without parent
IsForest(d) ==
    \A i \in 1..Len(d) :
        LET RECURSIVE Up(_, _)
            Up(j, steps) ==
                IF d[j] = 0 THEN TRUE
                ELSE IF steps = 0 THEN FALSE
                ELSE Up(d[j], steps - 1)
        IN  Up(i, Len(d))

DepsLists(n) == {d \in [1..n -> 0..n] : IsForest(d)}

\* minimizer.opt(coef_init, coef_inner, iconfs, ibands, options, nthreads)
\* of shell i: the optimised rows, in the nested shape of coef_init
MinimizerOpt(i, coef_init) ==
    [t \in 1..Len(coef_init) |->
        [l \in 1..Len(coef_init[t]) |->
            [k \in 1..Len(coef_init[t][l]) |-> <<i, l - 1, k - 1>>]]]

InitOnion ==
    /\ \E n \in 1..MaxShells :
         /\ nzeta \in [1..n -> ShellNzetas]
         /\ deps \in DepsLists(n)
         \* a level that repeats the nzeta of its parent adds nothing: the
         \* input reader gives every level its own zeta notation
         /\ \A i \in 1..n : deps[i] # 0 => nzeta[i] # nzeta[deps[i]]
         /\ coefs = [i \in 1..n |-> None]                      \* line 293
    /\ \E jy \in BOOLEAN : guess = _make_guess(nzeta, "initdir", jy, TRUE)
    /\ mono \in MonomerRuns
    /\ iorb = 1
    /\ calls = <<>>
    /\ pc = "loop"
    /\ args = <<>>
    /\ ret = Pending

\* one iteration of the loop of lines 294-310, for shell iorb
OnionStep ==
    /\ pc = "loop"
    /\ iorb <= Len(nzeta)
    /\ \E onNegative \in {"raise", "empty"} :
         LET index_ == deps[iorb]
             nzeta_inner == IF index_ = 0 THEN None
                            ELSE Some(nzeta[index_])            \* line 295
             coef_init == _coef_guess(guess, nzeta[iorb], nzeta_inner,
                                      _nzeta_analysis(GammaRun(mono)).v,
                                      onNegative)               \* line 298
             coef_inner == IF index_ # 0 THEN coefs[index_]
                           ELSE None                            \* line 300
             coefs_shell == MinimizerOpt(iorb, coef_init.v)     \* line 301
         IN  IF ~coef_init.ok
             THEN /\ pc' = "failed"
                  /\ ret' = coef_init
                  /\ UNCHANGED <<iorb, coefs, calls>>
             ELSE /\ calls' = Append(calls, [shell |-> iorb,
                                             coef_init |-> coef_init.v,
                                             coef_inner |-> coef_inner])
                  /\ coefs' = [coefs EXCEPT ![iorb] =
                        IF coef_inner.some
                        THEN Some(merge(coef_inner.v, coefs_shell, 2))
                        ELSE Some(coefs_shell)]                 \* 308-309
                  /\ iorb' = iorb + 1
                  /\ UNCHANGED <<pc, ret>>
    /\ UNCHANGED <<nzeta, deps, guess, mono, args>>

\* line 311: the loop is over, coefs is returned
OnionReturn ==
    /\ pc = "loop"
    /\ iorb > Len(nzeta)
    /\ pc' = "returned"
    /\ ret' = Ok(coefs)
    /\ UNCHANGED <<onionVars, args>>

Next == OnionStep \/ OnionReturn

Init == InitOnion

Spec == Init /\ [][Next]_vars

\* C1: whenever the minimizer is called for a shell that has a parent, the
\* parent has been optimised already (its coefs entry is set and is passed
\* as the frozen block), whatever the order of the shells in the list.
C1_ParentOptimisedFirst ==
    \A k \in 1..Len(calls) :
        deps[calls[k].shell] # 0 => calls[k].coef_inner.some

\* the tensor c [t][l][z], cut per channel to the zeta indices of p, is p
RestrictsTo(c, p) ==
    /\ Len(c) = Len(p)
    /\ \A t \in 1..Len(p) :
         /\ Len(c[t]) >= Len(p[t])
         /\ \A l \in 1..Len(p[t]) :
              /\ Len(c[t][l]) >= Len(p[t][l])
              /\ SubSeq(c[t][l], 1, Len(p[t][l])) = p[t][l]

\* C2: in the returned list, the tensor of every shell with a parent,
\* restricted per channel to the zeta indices of the parent, is the tensor
\* returned for the parent.
C2_ChildExtendsParent ==
    pc = "returned" =>
        \A i \in 1..Len(nzeta) :
            deps[i] # 0 =>
                /\ coefs[i].some /\ coefs[deps[i]].some
                /\ RestrictsTo(coefs[i].v, coefs[deps[i]].v)

\* C3: when _do_onion_opt returns, the entry of every shell is set and has
\* exactly nzeta[i][l] zeta rows in every channel l of nzeta[i].
C3_ReturnsCompleteTensors ==
    pc = "returned" =>
        \A i \in 1..Len(nzeta) :
            /\ coefs[i].some
            /\ Len(coefs[i].v) = 1
            /\ Len(coefs[i].v[1]) >= Len(nzeta[i])
            /\ \A l \in 1..Len(nzeta[i]) :
                 Len(coefs[i].v[1][l]) = nzeta[i][l]

\* C4: the minimizer is never called for a shell whose nzeta is not
\* componentwise >= the nzeta of its parent: such a shell fails before.
C4_ViolationFailsBeforeMinimizer ==
    \A k \in 1..Len(calls) :
        LET i == calls[k].shell
        IN  deps[i] # 0 => Leq(nzeta[deps[i]], nzeta[i])

====
